---- MODULE Spec2Model ----
(***************************************************************************)
(* Model of src/seo_audit.py: the SEO audit driver run_enhanced_seo_audit  *)
(* with its nested helpers (field analyzers, score calculator, sitemap     *)
(* discovery, page auditor, report aggregator).                            *)
(*                                                                         *)
(* Strings are sequences of one-character strings, so that len(), strip(), *)
(* split(), lower(), startswith() and the regular expressions of the code  *)
(* are computed, not assumed.  The page body text alone is run-length      *)
(* encoded: a sequence of runs [w |-> chunk, k |-> repetitions], standing  *)
(* for the chunk written k times, whitespace separated.                    *)
(***************************************************************************)
EXTENDS Integers, Sequences, FiniteSets, TLC

VARIABLES
    pc,              \* position of the driver, or of the function harness
    domain,          \* run_enhanced_seo_audit's parameter (reassigned at line 431)
    max_pages,       \* run_enhanced_seo_audit's parameter
    site,            \* the sitemap documents the web server holds
    stack,           \* call stack of extract_all_page_urls
    all_page_urls,   \* line 446 / 450
    seo_reports,     \* line 455
    report,          \* comprehensive_report, line 466
    sitemap_log,     \* the requests.get calls of line 170: URL, and whether a sitemap was served
    page_log,        \* the requests.get calls of line 281: URL and outcome
    call,            \* harness: the arguments a function is applied to
    ret              \* harness: the value it returned

vars == << pc, domain, max_pages, site, stack, all_page_urls, seo_reports,
           report, sitemap_log, page_log, call, ret >>

crawl_vars == << domain, max_pages, site, stack, all_page_urls, seo_reports,
                 report, sitemap_log, page_log >>

(***************************************************************************)
(* Bounds of the model.                                                    *)
(***************************************************************************)
MaxIssues == 4
MaxLinks == 4
MaxImages == 11

(***************************************************************************)
(* Characters and strings.                                                 *)
(***************************************************************************)
LowerSeq == << "a","b","c","d","e","f","g","h","i","j","k","l","m",
               "n","o","p","q","r","s","t","u","v","w","x","y","z" >>
UpperSeq == << "A","B","C","D","E","F","G","H","I","J","K","L","M",
               "N","O","P","Q","R","S","T","U","V","W","X","Y","Z" >>
Digits == { "0","1","2","3","4","5","6","7","8","9" }
Letters == { LowerSeq[i] : i \in 1..26 } \cup { UpperSeq[i] : i \in 1..26 }
WordChars == Letters \cup Digits \cup { "_" }
Whitespace == { " " }

Min(a, b) == IF a < b THEN a ELSE b
Max(a, b) == IF a > b THEN a ELSE b

Rep(c, k) == [ i \in 1..k |-> c ]
Take(s, n) == SubSeq(s, 1, Min(Len(s), n))
Drop(s, n) == SubSeq(s, Min(Len(s), n) + 1, Len(s))
Contains(s, c) == \E i \in 1..Len(s) : s[i] = c
StartsWith(s, p) == Len(s) >= Len(p) /\ SubSeq(s, 1, Len(p)) = p

\* str.lower()
ToLower(c) == IF \E i \in 1..26 : UpperSeq[i] = c
              THEN LowerSeq[CHOOSE i \in 1..26 : UpperSeq[i] = c]
              ELSE c
Lower(s) == [ i \in 1..Len(s) |-> ToLower(s[i]) ]

\* str.rstrip(chars), str.lstrip(chars), str.strip(chars)
RECURSIVE RStrip(_, _)
RStrip(s, chars) == IF s # << >> /\ s[Len(s)] \in chars
                    THEN RStrip(SubSeq(s, 1, Len(s) - 1), chars)
                    ELSE s
RECURSIVE LStrip(_, _)
LStrip(s, chars) == IF s # << >> /\ s[1] \in chars
                    THEN LStrip(Tail(s), chars)
                    ELSE s
Strip(s, chars) == LStrip(RStrip(s, chars), chars)

\* The pieces of s between separator characters, empty pieces included
\* (str.split(sep) for a one-character sep).
RECURSIVE SplitOn(_, _, _)
SplitOn(s, seps, cur) ==
    IF s = << >> THEN << cur >>
    ELSE IF s[1] \in seps THEN << cur >> \o SplitOn(Tail(s), seps, << >>)
    ELSE SplitOn(Tail(s), seps, Append(cur, s[1]))
NonEmpty(piece) == piece # << >>
\* str.split(): pieces between runs of whitespace, no empty piece
SplitWhitespace(s) == SelectSeq(SplitOn(s, Whitespace, << >>), NonEmpty)

Range(s) == { s[i] : i \in 1..Len(s) }

(***************************************************************************)
(* analyze_title_meta, lines 26-62.  "issues" and "recommendations" are    *)
(* built by the appends of the code, in its order.                         *)
(***************************************************************************)
NA == << "N", "/", "A" >>
TitleMin == 30
TitleMax == 60
MetaMin == 120
MetaMax == 160

\* title_issues with the length bounds taken inclusively
title_issues_inclusive(title) ==
    IF title = << >> \/ title = NA
    THEN << "Missing title tag" >>
    ELSE (IF Len(title) <= TitleMin THEN << "Title too short" >>
          ELSE IF Len(title) >= TitleMax THEN << "Title too long" >>
          ELSE << >>)
         \o
         (LET title_words == SplitWhitespace(Lower(title))
          IN  IF Len(title_words) # Cardinality(Range(title_words))
              THEN << "Duplicate words in title" >>
              ELSE << >>)

title_issues(title) ==
    IF title = << >> \/ title = NA
    THEN << "Missing title tag" >>
    ELSE (IF Len(title) < TitleMin THEN << "Title too short" >>
          ELSE IF Len(title) > TitleMax THEN << "Title too long" >>
          ELSE << >>)
         \o
         (LET title_words == SplitWhitespace(Lower(title))
          IN  IF Len(title_words) # Cardinality(Range(title_words))
              THEN << "Duplicate words in title" >>
              ELSE << >>)

title_recommendations(title) ==
    IF title = << >> \/ title = NA THEN << >>
    ELSE IF Len(title) < TitleMin THEN << "Expand title to 50-60 characters" >>
    ELSE IF Len(title) > TitleMax THEN << "Shorten title to under 60 characters" >>
    ELSE << >>

meta_issues(meta_desc) ==
    IF meta_desc = << >> \/ meta_desc = NA
    THEN << "Missing meta description" >>
    ELSE IF Len(meta_desc) < MetaMin THEN << "Meta description too short" >>
    ELSE IF Len(meta_desc) > MetaMax THEN << "Meta description too long" >>
    ELSE << >>

meta_recommendations(meta_desc) ==
    IF meta_desc = << >> \/ meta_desc = NA THEN << >>
    ELSE IF Len(meta_desc) < MetaMin
         THEN << "Expand meta description to 150-160 characters" >>
    ELSE IF Len(meta_desc) > MetaMax
         THEN << "Shorten meta description to under 160 characters" >>
    ELSE << >>

analyze_title_meta(title, meta_desc, url) ==
    [ title_length     |-> IF title # NA THEN Len(title) ELSE 0,
      meta_desc_length |-> IF meta_desc # NA THEN Len(meta_desc) ELSE 0,
      issues           |-> title_issues(title) \o meta_issues(meta_desc),
      recommendations  |-> title_recommendations(title)
                           \o meta_recommendations(meta_desc) ]

(***************************************************************************)
(* analyze_headers, lines 65-89.                                           *)
(***************************************************************************)
\* analyze_headers without the "No header tags found" branch reporting
\* separately: a page without any header gets the missing-H1 issue only,
\* and a page whose only headers are H2/H3 gets none
analyze_headers_h1_any(h1_tags, h2_tags, h3_tags) ==
    LET total_headers == Len(h1_tags) + Len(h2_tags) + Len(h3_tags)
    IN  [ h1_count |-> Len(h1_tags),
          h2_count |-> Len(h2_tags),
          h3_count |-> Len(h3_tags),
          issues   |->
              (IF total_headers = 0 THEN << "Missing H1 tag" >>
               ELSE IF Len(h1_tags) > 1 THEN << "Multiple H1 tags" >>
               ELSE << >>),
          recommendations |-> << >> ]

analyze_headers(h1_tags, h2_tags, h3_tags) ==
    LET total_headers == Len(h1_tags) + Len(h2_tags) + Len(h3_tags)
    IN  [ h1_count |-> Len(h1_tags),
          h2_count |-> Len(h2_tags),
          h3_count |-> Len(h3_tags),
          issues   |->
              (IF h1_tags = << >> THEN << "Missing H1 tag" >>
               ELSE IF Len(h1_tags) > 1 THEN << "Multiple H1 tags" >>
               ELSE << >>)
              \o (IF total_headers = 0 THEN << "No header tags found" >>
                  ELSE << >>),
          recommendations |->
              (IF h1_tags # << >> /\ Len(h1_tags) > 1
               THEN << "Use only one H1 tag per page" >> ELSE << >>)
              \o (IF total_headers # 0 /\ total_headers < 3
                  THEN << "Add more header tags for better content structure" >>
                  ELSE << >>) ]

(***************************************************************************)
(* calculate_seo_score, lines 259-273: the statements in their order.      *)
(***************************************************************************)
calculate_seo_score_unclamped(title_meta, header, url, content, internal_links, images_without_alt) ==
    LET s1 == 100 - Len(title_meta.issues) * 10
        s2 == s1 - Len(header.issues) * 10
        s3 == s2 - Len(url.issues) * 5
        s4 == s3 - Len(content.issues) * 10
        s5 == s4 - Min(images_without_alt * 2, 20)
    IN  IF internal_links >= 3 THEN s5 + 5 ELSE s5

calculate_seo_score_late_bonus(title_meta, header, url, content, internal_links, images_without_alt) ==
    LET s1 == 100 - Len(title_meta.issues) * 10
        s2 == s1 - Len(header.issues) * 10
        s3 == s2 - Len(url.issues) * 5
        s4 == s3 - Len(content.issues) * 10
        s5 == s4 - Min(images_without_alt * 2, 20)
        clamped == Max(0, Min(100, s5))
    IN  IF internal_links >= 3 THEN clamped + 5 ELSE clamped

calculate_seo_score(title_meta, header, url, content, internal_links, images_without_alt) ==
    LET s1 == 100 - Len(title_meta.issues) * 10
        s2 == s1 - Len(header.issues) * 10
        s3 == s2 - Len(url.issues) * 5
        s4 == s3 - Len(content.issues) * 10
        s5 == s4 - Min(images_without_alt * 2, 20)
        score == IF internal_links >= 3 THEN s5 + 5 ELSE s5
    IN  Max(0, Min(100, score))

(***************************************************************************)
(* get_keywords, lines 13-23.  A Counter is the sequence of its            *)
(* [word, count] entries in insertion order (the order items() and the     *)
(* stable sort of most_common() see).                                      *)
(***************************************************************************)
stop_words == {
    << "t", "h", "i", "s" >>, << "t", "h", "a", "t" >>, << "w", "i", "t", "h" >>,
    << "h", "a", "v", "e" >>, << "w", "i", "l", "l" >>, << "f", "r", "o", "m" >>,
    << "t", "h", "e", "y" >>, << "k", "n", "o", "w" >>, << "w", "a", "n", "t" >>,
    << "b", "e", "e", "n" >>, << "g", "o", "o", "d" >>, << "m", "u", "c", "h" >>,
    << "s", "o", "m", "e" >>, << "t", "i", "m", "e" >>, << "v", "e", "r", "y" >>,
    << "w", "h", "e", "n" >>, << "c", "o", "m", "e" >>, << "h", "e", "r", "e" >>,
    << "j", "u", "s", "t" >>, << "l", "i", "k", "e" >>, << "l", "o", "n", "g" >>,
    << "m", "a", "k", "e" >>, << "m", "a", "n", "y" >>, << "o", "v", "e", "r" >>,
    << "s", "u", "c", "h" >>, << "t", "a", "k", "e" >>, << "t", "h", "a", "n" >>,
    << "t", "h", "e", "m" >>, << "w", "e", "l", "l" >>, << "w", "e", "r", "e" >>,
    << "w", "h", "a", "t" >>, << "y", "o", "u", "r" >>, << "p", "a", "g", "e" >>,
    << "w", "e", "b", "s", "i", "t", "e" >>, << "s", "i", "t", "e" >> }

min_length == 4
max_length == 20

\* Maximal runs of characters of `keep` in s, in order.
RECURSIVE SplitRuns(_, _, _)
SplitRuns(s, keep, cur) ==
    IF s = << >> THEN (IF cur = << >> THEN << >> ELSE << cur >>)
    ELSE IF s[1] \in keep THEN SplitRuns(Tail(s), keep, Append(cur, s[1]))
    ELSE (IF cur = << >> THEN << >> ELSE << cur >>)
         \o SplitRuns(Tail(s), keep, << >>)

\* re.findall(r'\b[a-zA-Z]{4,20}\b', chunk): a match starts and ends at a
\* word boundary, so it is a whole maximal run of \w characters, made of
\* letters only, of 4 to 20 characters.
IsKeywordShaped(run) ==
    /\ Len(run) >= min_length
    /\ Len(run) <= max_length
    /\ \A i \in 1..Len(run) : run[i] \in Letters
FindWords(chunk) == SelectSeq(SplitRuns(chunk, WordChars, << >>), IsKeywordShaped)

IsDigitString(w) == w # << >> /\ \A i \in 1..Len(w) : w[i] \in Digits
IsKept(word) == word \notin stop_words /\ ~IsDigitString(word)

\* Counter: c[word] += n
CounterAdd(c, word, n) ==
    IF \E i \in 1..Len(c) : c[i].word = word
    THEN [ i \in 1..Len(c) |->
             IF c[i].word = word THEN [ c[i] EXCEPT !.count = @ + n ] ELSE c[i] ]
    ELSE Append(c, [ word |-> word, count |-> n ])

RECURSIVE CounterAddAll(_, _, _)
CounterAddAll(c, words, n) ==
    IF words = << >> THEN c
    ELSE CounterAddAll(CounterAdd(c, Head(words), n), Tail(words), n)

\* The body text is run-length encoded: each run is a whitespace-free chunk
\* repeated k times.
RECURSIVE CountRuns(_, _)
CountRuns(c, text) ==
    IF text = << >> THEN c
    ELSE CountRuns(
           CounterAddAll(c, SelectSeq(FindWords(Lower(Head(text).w)), IsKept),
                         Head(text).k),
           Tail(text))

get_keywords(text) == CountRuns(<< >>, text)

\* Counter.most_common(n): stable sort by descending count, first n.
RECURSIVE InsertByCount(_, _)
InsertByCount(sorted, e) ==
    IF sorted = << >> THEN << e >>
    ELSE IF Head(sorted).count >= e.count
         THEN << Head(sorted) >> \o InsertByCount(Tail(sorted), e)
         ELSE << e >> \o sorted
RECURSIVE SortByCount(_, _)
SortByCount(sorted, c) ==
    IF c = << >> THEN sorted
    ELSE SortByCount(InsertByCount(sorted, Head(c)), Tail(c))
most_common(c, n) == Take(SortByCount(<< >>, c), n)

(***************************************************************************)
(* urlparse, as analyze_url_structure and analyze_internal_links use it:   *)
(* scheme, netloc, path and query of a URL.                                *)
(***************************************************************************)
IndexOf(s, chars) ==
    IF \E i \in 1..Len(s) : s[i] \in chars
    THEN CHOOSE i \in 1..Len(s) :
            s[i] \in chars /\ \A j \in 1..(i - 1) : s[j] \notin chars
    ELSE Len(s) + 1

SchemeChars == Letters \cup Digits \cup { "+", "-", "." }

\* [scheme, rest]: the scheme before the first ":" when it is one
SplitScheme(url, colon) ==
    IF /\ colon > 1
       /\ colon <= Len(url)
       /\ url[1] \in Letters
       /\ \A i \in 1..(colon - 1) : url[i] \in SchemeChars
    THEN [ scheme |-> Lower(SubSeq(url, 1, colon - 1)), rest |-> Drop(url, colon) ]
    ELSE [ scheme |-> << >>, rest |-> url ]

\* [netloc, rest]: the authority after "//", up to the next "/", "?" or "#"
NetlocUpTo(after, stop) ==
    [ netloc |-> SubSeq(after, 1, stop - 1), rest |-> Drop(after, stop - 1) ]
SplitNetloc(rest) ==
    IF StartsWith(rest, << "/", "/" >>)
    THEN NetlocUpTo(Drop(rest, 2), IndexOf(Drop(rest, 2), { "/", "?", "#" }))
    ELSE [ netloc |-> << >>, rest |-> rest ]

\* the fragment is dropped, the query follows the first "?"
SplitQuery(scheme, netloc, nofrag, qmark) ==
    [ scheme |-> scheme,
      netloc |-> netloc,
      path   |-> SubSeq(nofrag, 1, qmark - 1),
      query  |-> Drop(nofrag, qmark) ]
SplitPath(scheme, netloc, nofrag) ==
    SplitQuery(scheme, netloc, nofrag, IndexOf(nofrag, { "?" }))
SplitFragment(scheme, loc) ==
    SplitPath(scheme, loc.netloc,
              SubSeq(loc.rest, 1, IndexOf(loc.rest, { "#" }) - 1))
SplitAuthority(s) == SplitFragment(s.scheme, SplitNetloc(s.rest))

urlparse(url) == SplitAuthority(SplitScheme(url, IndexOf(url, { ":" })))

(***************************************************************************)
(* analyze_url_structure, lines 92-128.                                    *)
(***************************************************************************)
UrlDepthMax == 4
UrlLenMax == 100

PathDepth(stripped) ==
    IF stripped # << >> THEN Len(SplitOn(stripped, { "/" }, << >>)) ELSE 0

url_issues(url, parsed, depth) ==
    (IF depth > UrlDepthMax THEN << "URL too deep" >> ELSE << >>)
    \o (IF Contains(parsed.path, "_") THEN << "Contains underscores" >>
        ELSE << >>)
    \o (IF ~ \E i \in 1..Len(parsed.path) : parsed.path[i] \in Letters
        THEN << "No descriptive text in URL" >> ELSE << >>)
    \o (IF Len(url) > UrlLenMax THEN << "URL too long" >> ELSE << >>)
    \o (IF parsed.query # << >> THEN << "Contains URL parameters" >>
        ELSE << >>)

url_recommendations(url, parsed, depth) ==
    (IF depth > UrlDepthMax THEN << "Reduce URL depth to 3 levels or less" >>
     ELSE << >>)
    \o (IF Contains(parsed.path, "_")
        THEN << "Replace underscores with hyphens" >> ELSE << >>)
    \o (IF ~ \E i \in 1..Len(parsed.path) : parsed.path[i] \in Letters
        THEN << "Add descriptive keywords to URL" >> ELSE << >>)
    \o (IF Len(url) > UrlLenMax
        THEN << "Shorten URL to under 100 characters" >> ELSE << >>)

UrlAnalysis(url, depth, issues, recommendations) ==
    [ depth  |-> depth,
      length |-> Len(url),
      issues |-> issues,
      recommendations |-> recommendations,
      score  |-> IF issues = << >> THEN "Good" ELSE "Needs Improvement" ]

UrlAnalysisAt(url, parsed, depth) ==
    UrlAnalysis(url, depth, url_issues(url, parsed, depth),
                url_recommendations(url, parsed, depth))

UrlAnalysisOf(url, parsed) ==
    UrlAnalysisAt(url, parsed, PathDepth(Strip(parsed.path, { "/" })))

analyze_url_structure(url) == UrlAnalysisOf(url, urlparse(url))

(***************************************************************************)
(* analyze_content_quality, lines 131-161.                                 *)
(***************************************************************************)
ContentMinWords == 300
ContentMaxWords == 3000
DensityMaxPercent == 3
SentenceMaxWords == 20

RECURSIVE MaxCount(_)
MaxCount(c) == IF c = << >> THEN 0 ELSE Max(Head(c).count, MaxCount(Tail(c)))

\* len(re.split(r'[.!?]+', text)): one more than the number of maximal runs
\* of sentence punctuation; a run never spans two chunks.
RECURSIVE PunctRuns(_)
PunctRuns(text) ==
    IF text = << >> THEN 0
    ELSE Head(text).k * Len(SplitRuns(Head(text).w, { ".", "!", "?" }, << >>))
         + PunctRuns(Tail(text))
SentenceCount(text) == 1 + PunctRuns(text)

analyze_content_quality(word_count, keyword_density, text_content) ==
    LET short == word_count < ContentMinWords
        \* max(values) / word_count * 100 > 3
        over == /\ keyword_density # << >>
                /\ MaxCount(keyword_density) * 100 > DensityMaxPercent * word_count
        sentences == SentenceCount(text_content)
        wordy == sentences > 0 /\ word_count > SentenceMaxWords * sentences
    IN  [ word_count |-> word_count,
          readability_score |-> IF word_count >= ContentMinWords THEN "Good"
                                ELSE "Poor",
          issues |->
            (IF short THEN << "Content too short" >> ELSE << >>)
            \o (IF over THEN << "Keyword over-optimization" >> ELSE << >>),
          recommendations |->
            (IF short THEN << "Expand content to at least 300 words" >>
             ELSE IF word_count > ContentMaxWords
             THEN << "Consider breaking long content into multiple pages" >>
             ELSE << >>)
            \o (IF over THEN << "Reduce keyword density to 2-3%" >> ELSE << >>)
            \o (IF wordy
                THEN << "Consider shorter sentences for better readability" >>
                ELSE << >>) ]

(***************************************************************************)
(* urljoin, as analyze_internal_links uses it at line 240, for absolute,   *)
(* scheme-relative, root-relative and plain relative references (no dot    *)
(* segments).                                                              *)
(***************************************************************************)
RECURSIVE DirOf(_)
DirOf(path) == IF path = << >> THEN << "/" >>
               ELSE IF path[Len(path)] = "/" THEN path
               ELSE DirOf(SubSeq(path, 1, Len(path) - 1))

Origin(b) == b.scheme \o << ":", "/", "/" >> \o b.netloc

JoinParsed(b, h, href) ==
    IF h.scheme # << >> THEN href
    ELSE IF StartsWith(href, << "/", "/" >>) THEN b.scheme \o << ":" >> \o href
    ELSE IF StartsWith(href, << "/" >>) THEN Origin(b) \o href
    ELSE Origin(b) \o DirOf(b.path) \o href

urljoin(base_url, href) == JoinParsed(urlparse(base_url), urlparse(href), href)

(***************************************************************************)
(* analyze_internal_links, lines 231-256.  soup.anchors are the <a> tags   *)
(* that carry an href attribute, in document order.                        *)
(***************************************************************************)
IsFollowed(a) ==
    LET href == Strip(a.href, Whitespace)
    IN  href # << >> /\ ~StartsWith(href, << "#" >>)

IsInternal(a, base_url) ==
    urlparse(urljoin(base_url, Strip(a.href, Whitespace))).netloc
        = urlparse(base_url).netloc

RECURSIVE InternalOf(_, _)
InternalOf(anchors, base_url) ==
    IF anchors = << >> THEN << >>
    ELSE (IF IsFollowed(Head(anchors)) /\ IsInternal(Head(anchors), base_url)
          THEN << [ url |-> urljoin(base_url, Strip(Head(anchors).href, Whitespace)),
                    anchor_text |-> Head(anchors).text,
                    title |-> Head(anchors).title ] >>
          ELSE << >>)
         \o InternalOf(Tail(anchors), base_url)

RECURSIVE ExternalOf(_, _)
ExternalOf(anchors, base_url) ==
    IF anchors = << >> THEN << >>
    ELSE (IF IsFollowed(Head(anchors)) /\ ~IsInternal(Head(anchors), base_url)
          THEN << [ url |-> urljoin(base_url, Strip(Head(anchors).href, Whitespace)),
                    anchor_text |-> Head(anchors).text ] >>
          ELSE << >>)
         \o ExternalOf(Tail(anchors), base_url)

analyze_internal_links(soup, base_url) ==
    << InternalOf(soup.anchors, base_url), ExternalOf(soup.anchors, base_url) >>

(***************************************************************************)
(* extract_breadcrumbs, lines 195-228.  soup.containers[i] is what         *)
(* select_one finds for the i-th selector: whether a container matches and *)
(* the stripped texts of its <a>/<span> descendants.  soup.ld_json are the *)
(* application/ld+json scripts: one that json.loads rejects, or the parsed *)
(* value.                                                                  *)
(***************************************************************************)
NumSelectors == 5

RECURSIVE FirstContainerTexts(_, _)
FirstContainerTexts(containers, i) ==
    IF i > Len(containers) THEN << >>
    ELSE LET texts == IF containers[i].found
                      THEN SelectSeq(containers[i].texts, NonEmpty)
                      ELSE << >>
         IN  IF texts # << >> THEN texts
             ELSE FirstContainerTexts(containers, i + 1)

\* for item in itemListElement: an item that is no object raises inside the
\* try, which ends this script with the names appended so far.
RECURSIVE ItemNames(_)
ItemNames(items) ==
    IF items = << >> THEN << >>
    ELSE IF ~Head(items).is_dict THEN << >>
    ELSE (IF Head(items).name # << >> THEN << Head(items).name >> ELSE << >>)
         \o ItemNames(Tail(items))

RECURSIVE LdJsonNames(_)
LdJsonNames(scripts) ==
    IF scripts = << >> THEN << >>
    ELSE (IF Head(scripts).parses /\ Head(scripts).is_dict
             /\ Head(scripts).type = "BreadcrumbList"
          THEN ItemNames(Head(scripts).items)
          ELSE << >>)
         \o LdJsonNames(Tail(scripts))

\* the structured data consulted before the selectors
extract_breadcrumbs_json_first(soup) ==
    IF LdJsonNames(soup.ld_json) # << >> THEN LdJsonNames(soup.ld_json)
    ELSE FirstContainerTexts(soup.containers, 1)

extract_breadcrumbs(soup) ==
    LET breadcrumbs == FirstContainerTexts(soup.containers, 1)
    IN  IF breadcrumbs = << >> THEN LdJsonNames(soup.ld_json) ELSE breadcrumbs

(***************************************************************************)
(* get_seo_data, lines 276-366.  The response is what requests.get gives   *)
(* for the URL: an exception, a non-2xx status, or a page; soup is the     *)
(* parsed page:                                                            *)
(*   title       [tag |-> "absent" | "nostring" | "string", string]        *)
(*               ("nostring": a <title> whose .string is None)             *)
(*   description, keywords, robots   [tag |-> BOOLEAN, content]            *)
(*   h1, h2, h3  the stripped texts of the header tags                     *)
(*   images      the alt attribute of each <img>, << >> when missing       *)
(*   text        get_text(separator=' ', strip=True), run-length encoded   *)
(*   anchors, containers, ld_json    as above                              *)
(* A PageRecord is a function from the keys of the returned dict.          *)
(***************************************************************************)
INDEX_FOLLOW == << "i", "n", "d", "e", "x", ",", "f", "o", "l", "l", "o", "w" >>

ErrorKeys == { "URL", "Error" }

SuccessKeys ==
    { "URL", "Title", "Title Length", "Meta Description",
      "Meta Description Length", "Meta Keywords", "H1 Tags", "H2 Tags",
      "H3 Tags", "H1 Count", "H2 Count", "H3 Count", "Images Total",
      "Images Without Alt", "Alt Texts", "Breadcrumbs", "Internal Links",
      "External Links", "Internal Links Count", "External Links Count",
      "Word Count", "Keyword Density", "Top Keywords", "Robots", "URL Depth",
      "URL Length", "Title Meta Issues", "Header Issues", "URL Issues",
      "Content Issues", "Recommendations", "Overall Score" }

ErrorRecord_partial(url, e) == ("URL" :> url) @@ ("Error" :> e) @@ ("Title" :> NA)

ErrorRecord(url, e) == ("URL" :> url) @@ ("Error" :> e)

MetaContent(tag, default) ==
    IF tag.tag THEN Strip(tag.content, Whitespace) ELSE default

HasAlt(alt) == alt # << >>
StripWhitespace(x) == Strip(x, Whitespace)
RECURSIVE MapStrip(_)
MapStrip(xs) == IF xs = << >> THEN << >>
                ELSE << StripWhitespace(Head(xs)) >> \o MapStrip(Tail(xs))

RECURSIVE WordCount(_)
WordCount(text) == IF text = << >> THEN 0
                   ELSE Head(text).k + WordCount(Tail(text))

TopKeywordsMax == 10

\* lines 324-362: the returned dict
AssembleRecord(url, raw, links, title_meta_analysis, header_analysis, url_analysis, content_analysis) ==
    ("URL" :> url)
    @@ ("Title" :> raw.title)
    @@ ("Title Length" :> title_meta_analysis.title_length)
    @@ ("Meta Description" :> raw.meta_description)
    @@ ("Meta Description Length" :> title_meta_analysis.meta_desc_length)
    @@ ("Meta Keywords" :> raw.meta_keywords)
    @@ ("H1 Tags" :> raw.h1_tags)
    @@ ("H2 Tags" :> raw.h2_tags)
    @@ ("H3 Tags" :> raw.h3_tags)
    @@ ("H1 Count" :> header_analysis.h1_count)
    @@ ("H2 Count" :> header_analysis.h2_count)
    @@ ("H3 Count" :> header_analysis.h3_count)
    @@ ("Images Total" :> raw.images_total)
    @@ ("Images Without Alt" :> raw.images_without_alt)
    @@ ("Alt Texts" :> raw.alt_texts)
    @@ ("Breadcrumbs" :> raw.breadcrumbs)
    @@ ("Internal Links" :> links[1])
    @@ ("External Links" :> links[2])
    @@ ("Internal Links Count" :> Len(links[1]))
    @@ ("External Links Count" :> Len(links[2]))
    @@ ("Word Count" :> raw.word_count)
    @@ ("Keyword Density" :> raw.keyword_density)
    @@ ("Top Keywords" :> most_common(raw.keyword_density, TopKeywordsMax))
    @@ ("Robots" :> raw.robots_content)
    @@ ("URL Depth" :> url_analysis.depth)
    @@ ("URL Length" :> url_analysis.length)
    @@ ("Title Meta Issues" :> title_meta_analysis.issues)
    @@ ("Header Issues" :> header_analysis.issues)
    @@ ("URL Issues" :> url_analysis.issues)
    @@ ("Content Issues" :> content_analysis.issues)
    @@ ("Recommendations" :> title_meta_analysis.recommendations
                             \o header_analysis.recommendations
                             \o url_analysis.recommendations
                             \o content_analysis.recommendations)
    @@ ("Overall Score" :>
          calculate_seo_score(title_meta_analysis, header_analysis,
                              url_analysis, content_analysis,
                              Len(links[1]), raw.images_without_alt))

\* lines 318-322: the four analyzers on the extracted fields
AnalyzePage(url, raw, links) ==
    AssembleRecord(url, raw, links,
        analyze_title_meta(raw.title, raw.meta_description, url),
        analyze_headers(raw.h1_tags, raw.h2_tags, raw.h3_tags),
        analyze_url_structure(url),
        analyze_content_quality(raw.word_count, raw.keyword_density, raw.text))

\* lines 285-310 and 316: the fields extracted from the parsed page
ExtractFields(soup) ==
    [ title |-> IF soup.title.tag # "absent"
                THEN Strip(soup.title.string, Whitespace) ELSE NA,
      meta_description |-> MetaContent(soup.description, NA),
      meta_keywords |-> MetaContent(soup.keywords, NA),
      robots_content |-> IF soup.robots.tag
                         THEN Lower(Strip(soup.robots.content, Whitespace))
                         ELSE INDEX_FOLLOW,
      h1_tags |-> soup.h1,
      h2_tags |-> soup.h2,
      h3_tags |-> soup.h3,
      images_total |-> Len(soup.images),
      alt_texts |-> MapStrip(SelectSeq(soup.images, HasAlt)),
      images_without_alt |->
          Len(soup.images) - Len(SelectSeq(soup.images, HasAlt)),
      text |-> soup.text,
      word_count |-> WordCount(soup.text),
      keyword_density |-> get_keywords(soup.text),
      breadcrumbs |-> extract_breadcrumbs(soup) ]

PageRecord(url, soup) ==
    AnalyzePage(url, ExtractFields(soup), analyze_internal_links(soup, url))

get_seo_data(url, response) ==
    IF response.status = "exception" THEN ErrorRecord(url, "request failed")
    ELSE IF response.status = "http_error" THEN ErrorRecord(url, "HTTP error status")
    ELSE IF response.soup.title.tag = "nostring"
         \* soup.title.string is None: None.strip() raises AttributeError
         THEN ErrorRecord(url, "'NoneType' object has no attribute 'strip'")
    ELSE PageRecord(url, response.soup)

IsErrorRecord(r) == "Error" \in DOMAIN r

(***************************************************************************)
(* generate_comprehensive_report, lines 369-424.  df is the sequence of    *)
(* rows the DataFrame was built from; a row lacks the columns its dict     *)
(* lacks (NaN).  A dict is a function; the empty dict is the function with *)
(* the empty domain.                                                       *)
(***************************************************************************)
EmptyDict == << >>
CommonIssuesMax == 10
TopAggregateMax == 20
OpportunitiesMax == 10

EmptyReport ==
    [ summary |-> EmptyDict, common_issues |-> << >>,
      keyword_analysis |-> EmptyDict, recommendations |-> << >> ]

IsValidRow(r) == ~IsErrorRecord(r)

\* lines 382-385: valid_df
ValidRows_none_if_error(df) ==
    IF \E i \in 1..Len(df) : IsErrorRecord(df[i]) THEN << >> ELSE df

ValidRows(df) ==
    IF \E i \in 1..Len(df) : IsErrorRecord(df[i])
    THEN SelectSeq(df, IsValidRow)
    ELSE df

RECURSIVE SumColumn(_, _)
SumColumn(rows, col) ==
    IF rows = << >> THEN 0 ELSE Head(rows)[col] + SumColumn(Tail(rows), col)

\* Series.mean(), as the fraction sum / count
Mean(rows, col) == [ sum |-> SumColumn(rows, col), count |-> Len(rows) ]

HasTitleMetaIssues(r) == r["Title Meta Issues"] # << >>
MetaDescIsNA(r) == r["Meta Description"] = NA
HasNoH1(r) == r["H1 Count"] = 0

Summary(valid_df) ==
    [ total_pages |-> Len(valid_df),
      average_score |-> Mean(valid_df, "Overall Score"),
      pages_with_issues |-> Len(SelectSeq(valid_df, HasTitleMetaIssues)),
      average_word_count |-> Mean(valid_df, "Word Count"),
      pages_missing_meta_desc |-> Len(SelectSeq(valid_df, MetaDescIsNA)),
      pages_missing_h1 |-> Len(SelectSeq(valid_df, HasNoH1)) ]

\* lines 401-406: all_issues, column by column, row by row
RECURSIVE ColumnConcat(_, _)
ColumnConcat(rows, col) ==
    IF rows = << >> THEN << >>
    ELSE Head(rows)[col] \o ColumnConcat(Tail(rows), col)

AllIssues(valid_df) ==
    ColumnConcat(valid_df, "Title Meta Issues")
    \o ColumnConcat(valid_df, "Header Issues")
    \o ColumnConcat(valid_df, "URL Issues")
    \o ColumnConcat(valid_df, "Content Issues")

\* Counter(list)
RECURSIVE CounterOf(_, _)
CounterOf(c, items) ==
    IF items = << >> THEN c
    ELSE CounterOf(CounterAdd(c, Head(items), 1), Tail(items))

\* lines 412-416: all_keywords[keyword] += count
RECURSIVE AddPairs(_, _)
AddPairs(c, pairs) ==
    IF pairs = << >> THEN c
    ELSE AddPairs(CounterAdd(c, Head(pairs).word, Head(pairs).count), Tail(pairs))

RECURSIVE AllKeywords(_, _)
AllKeywords(c, rows) ==
    IF rows = << >> THEN c
    ELSE AllKeywords(AddPairs(c, Head(rows)["Top Keywords"]), Tail(rows))

RECURSIVE Words(_)
Words(c) == IF c = << >> THEN << >> ELSE << Head(c).word >> \o Words(Tail(c))

\* line 421
IsOpportunity_at_least_once(e) == e.count >= 1

IsOpportunity(e) == e.count = 1

keyword_opportunities(all_keywords) ==
    Take(Words(SelectSeq(all_keywords, IsOpportunity)), OpportunitiesMax)

KeywordAnalysis(all_keywords) ==
    [ top_keywords |-> most_common(all_keywords, TopAggregateMax),
      total_unique_keywords |-> Len(all_keywords),
      keyword_opportunities |-> keyword_opportunities(all_keywords) ]

ReportOf(valid_df) ==
    IF valid_df = << >> THEN EmptyReport
    ELSE [ summary |-> Summary(valid_df),
           common_issues |->
               most_common(CounterOf(<< >>, AllIssues(valid_df)), CommonIssuesMax),
           keyword_analysis |-> KeywordAnalysis(AllKeywords(<< >>, valid_df)),
           recommendations |-> << >> ]

generate_comprehensive_report(df) ==
    IF df = << >> THEN EmptyReport ELSE ReportOf(ValidRows(df))

(***************************************************************************)
(* The web site the driver crawls.  site = [shape, n] names the sitemap    *)
(* documents the server holds; n gives how many page URLs each plain       *)
(* sitemap lists.  A document is [sitemap_tags, url_locs]: its <sitemap>   *)
(* elements and, when it has none, its <loc> elements.  An element's loc   *)
(* is absent, empty (loc.text is None) or a text.                          *)
(***************************************************************************)
MaxUrls == 3
MaxCap == 4
\* how many activations of extract_all_page_urls the interpreter's stack
\* holds before a further call raises RecursionError
RecursionLimit == 3

HTTP == << "h", "t", "t", "p", ":", "/", "/" >>
HTTPS == << "h", "t", "t", "p", "s", ":", "/", "/" >>
HOST == << "x", ".", "c", "o", "m" >>
BASE == HTTPS \o HOST
SITEMAP_XML == << "/", "s", "i", "t", "e", "m", "a", "p", ".", "x", "m", "l" >>
DOT_XML == << ".", "x", "m", "l" >>
DigitSeq == << "1", "2", "3", "4", "5", "6", "7", "8", "9" >>
SectionSeq == << "a", "b", "c", "d" >>

ChildPath(k) == << "/", "s", DigitSeq[k] >> \o DOT_XML
ChildUrl(k) == BASE \o ChildPath(k)
\* the j-th page URL listed by child sitemap k (k = 0: by the root sitemap)
PageUrl(k, j) ==
    BASE \o << "/", IF k = 0 THEN "r" ELSE SectionSeq[k], "/", "p", DigitSeq[j] >>

AbsentLoc == [ loc |-> "absent", text |-> << >> ]
EmptyLoc == [ loc |-> "empty", text |-> << >> ]
TextLoc(t) == [ loc |-> "text", text |-> t ]

Doc(tags, locs) == [ sitemap_tags |-> tags, url_locs |-> locs ]
UrlSet(k, count) == Doc(<< >>, [ j \in 1..count |-> TextLoc(PageUrl(k, j)) ])

RootDoc(st) ==
    CASE st.shape = "urlset" -> UrlSet(0, st.n[1])
      [] st.shape = "blank" ->
            Doc(<< >>, << TextLoc(PageUrl(0, 1)), EmptyLoc, TextLoc(PageUrl(0, 2)) >>)
      [] st.shape = "repeat" ->
            Doc(<< >>, << TextLoc(PageUrl(0, 1)), TextLoc(PageUrl(0, 1)),
                          TextLoc(PageUrl(0, 2)) >>)
      [] st.shape = "index" ->
            Doc([ k \in 1..Len(st.n) |-> TextLoc(ChildUrl(k)) ], << >>)
      [] st.shape = "gaps" ->
            Doc(<< TextLoc(ChildUrl(1)), AbsentLoc,
                   TextLoc(<< " " >> \o ChildUrl(2) \o << " " >>),
                   TextLoc(ChildUrl(3)) >>, << >>)
      [] st.shape = "broken" ->
            Doc(<< TextLoc(ChildUrl(1)), EmptyLoc, TextLoc(ChildUrl(2)) >>, << >>)
      [] st.shape = "nested" ->
            Doc(<< TextLoc(ChildUrl(1)), TextLoc(ChildUrl(2)) >>, << >>)
      \* an index that lists itself
      [] st.shape = "self" -> Doc(<< TextLoc(BASE \o SITEMAP_XML) >>, << >>)
      \* two indexes that list each other
      [] st.shape = "mutual" -> Doc(<< TextLoc(ChildUrl(1)) >>, << >>)

ChildDoc(st, k) ==
    IF st.shape = "nested"
    THEN (IF k = 1 THEN Doc(<< TextLoc(ChildUrl(3)), TextLoc(ChildUrl(4)) >>, << >>)
          ELSE UrlSet(k, st.n[k - 1]))
    ELSE IF st.shape = "mutual" THEN Doc(<< TextLoc(BASE \o SITEMAP_XML) >>, << >>)
    ELSE UrlSet(k, st.n[k])

ChildCount(st) ==
    CASE st.shape \in { "urlset", "blank", "repeat" } -> 0
      [] st.shape = "nested" -> 4
      [] OTHER -> Len(st.n)

\* the document the server holds at the path, when it holds one
IsSitemapPath(st, path) ==
    path = SITEMAP_XML \/ \E k \in 1..ChildCount(st) : path = ChildPath(k)
DocAtPath(st, path) ==
    IF path = SITEMAP_XML THEN RootDoc(st)
    ELSE ChildDoc(st, CHOOSE k \in 1..ChildCount(st) : path = ChildPath(k))
\* the path of the request line: what follows scheme://host
AfterScheme(url) == Drop(url, IndexOf(url, { ":" }) + 2)
RequestPath(url) == Drop(AfterScheme(url), IndexOf(AfterScheme(url), { "/" }) - 1)
DocAt(st, url) == DocAtPath(st, RequestPath(url))

Sites ==
    { [ shape |-> "urlset", n |-> << a >> ] : a \in 0..MaxUrls }
    \cup { [ shape |-> "index", n |-> << a, b >> ] : a, b \in 0..MaxUrls }
    \cup { [ shape |-> "index", n |-> << a, b, c >> ] : a, b, c \in { 1, MaxUrls } }
    \cup { [ shape |-> "nested", n |-> << a, b, c >> ] : a, b, c \in { 1, MaxUrls } }
    \cup { [ shape |-> "gaps", n |-> << a, a, a >> ] : a \in { 1, MaxUrls } }
    \cup { [ shape |-> "broken", n |-> << a, a >> ] : a \in { 1, MaxUrls } }
    \cup { [ shape |-> "blank", n |-> << 2 >> ] }
    \cup { [ shape |-> "repeat", n |-> << 2 >> ] }
    \cup { [ shape |-> "self", n |-> << >> ], [ shape |-> "mutual", n |-> << 0 >> ] }

\* The pages of the site, by the last character of their URL.
SiteTitle == << "W", "i", "d", "g", "e", "t", " ", "g", "u", "i", "d", "e", " " >> \o Rep("x", 22)
SiteHeading == << "I", "n", "t", "r", "o" >>
EmptySoupPart ==
    [ found |-> FALSE, texts |-> << >> ]
SiteSoup(title, h1, text, anchors) ==
    [ title |-> title,
      description |-> [ tag |-> FALSE, content |-> << >> ],
      keywords |-> [ tag |-> FALSE, content |-> << >> ],
      robots |-> [ tag |-> FALSE, content |-> << >> ],
      h1 |-> h1, h2 |-> << SiteHeading >>, h3 |-> << >>,
      images |-> << << >> >>, text |-> text, anchors |-> anchors,
      containers |-> [ i \in 1..NumSelectors |-> EmptySoupPart ],
      ld_json |-> << >> ]

SiteText(kw) ==
    << [ w |-> << "a" >>, k |-> 400 ], [ w |-> << "e", "n", "d", "." >>, k |-> 30 ],
       [ w |-> kw, k |-> 1 ] >>

PageAt(url) ==
    CASE url[Len(url)] = "2" ->
            SiteSoup([ tag |-> "absent", string |-> << >> ], << >>,
                     SiteText(<< "g", "a", "d", "g", "e", "t" >>), << >>)
      [] url[Len(url)] = "3" ->
            SiteSoup([ tag |-> "nostring", string |-> << >> ], << SiteHeading >>,
                     SiteText(<< "g", "a", "d", "g", "e", "t" >>), << >>)
      [] OTHER ->
            SiteSoup([ tag |-> "string", string |-> SiteTitle ], << SiteHeading >>,
                     SiteText(<< "w", "i", "d", "g", "e", "t" >>),
                     << [ href |-> << "/", "a", "b", "o", "u", "t" >>, text |-> SiteHeading,
                          title |-> << >> ] >>)

(***************************************************************************)
(* extract_all_page_urls, lines 164-192, as a call stack: a frame is the   *)
(* activation of one call on a sitemap index, at its loop of line 180.     *)
(***************************************************************************)
\* line 189
LimitPages_plus_one(page_urls, cap) == Take(page_urls, cap + 1)

LimitPages(page_urls, cap) == Take(page_urls, cap)

\* line 183: page_urls.extend(...)
Extend_overwrite(page_urls, found) == found

Extend(page_urls, found) == page_urls \o found

FetchOutcomes == { "exception", "http_error", "not_xml", "malformed", "ok" }

HasEmptyLoc(locs) == \E i \in 1..Len(locs) : locs[i].loc = "empty"
RECURSIVE LocTexts(_)
LocTexts(locs) ==
    IF locs = << >> THEN << >>
    ELSE << Strip(Head(locs).text, Whitespace) >> \o LocTexts(Tail(locs))

\* what a call returns without recursing: the except branch (line 192), a
\* response that is no XML (page_urls stays empty), or a regular sitemap
\* (lines 186-189; url.text.strip() raises on an empty <loc>)
PlainResult(doc, outcome, cap) ==
    IF outcome \in { "exception", "http_error", "malformed" } THEN << >>
    ELSE IF outcome = "not_xml" THEN LimitPages(<< >>, cap)
    ELSE IF HasEmptyLoc(doc.url_locs) THEN << >>
    ELSE LimitPages(LocTexts(doc.url_locs), cap)

NewFrame(url, doc) ==
    [ url |-> url, tags |-> doc.sitemap_tags, i |-> 1, page_urls |-> << >> ]

\* the caller's frame once the recursive call of line 183 has returned
Resume(frame, found) ==
    [ frame EXCEPT !.page_urls = Extend(@, found), !.i = @ + 1 ]

Pop(stk) == SubSeq(stk, 1, Len(stk) - 1)

\* a call returns `found` to the frame on top of stk, or to line 446
Deliver(stk, found) ==
    IF stk = << >>
    THEN /\ all_page_urls' = found
         /\ stack' = << >>
         /\ pc' = "fallback"
    ELSE /\ stack' = [ stk EXCEPT ![Len(stk)] = Resume(@, found) ]
         /\ pc' = "discover"
         /\ UNCHANGED all_page_urls

Homepage == RStrip(domain, { "/" })
sitemap_url == Homepage \o SITEMAP_XML

AtEntry ==
    /\ pc = "discover"
    /\ stack # << >>
    /\ stack[Len(stack)].i <= Len(stack[Len(stack)].tags)
CurrentEntry == stack[Len(stack)].tags[stack[Len(stack)].i]

CallTarget ==
    IF pc = "sitemap" THEN sitemap_url ELSE Strip(CurrentEntry.text, Whitespace)

Served(url, outcome) ==
    IF IsSitemapPath(site, RequestPath(url)) THEN outcome ELSE "http_error"

ExtractCallOn(url, outcome) ==
    /\ sitemap_log' = Append(sitemap_log, [ url |-> url, ok |-> outcome = "ok" ])
    /\ IF outcome = "ok" /\ DocAt(site, url).sitemap_tags # << >>
       THEN /\ stack' = Append(stack, NewFrame(url, DocAt(site, url)))
            /\ pc' = "discover"
            /\ UNCHANGED all_page_urls
       ELSE Deliver(stack,
                    PlainResult(IF outcome = "ok" THEN DocAt(site, url)
                                ELSE Doc(<< >>, << >>),
                                outcome, max_pages))

\* a stack twice as deep
StackFull_twice_as_deep(stk) == Len(stk) >= RecursionLimit + RecursionLimit

\* the interpreter's stack is full: a further call raises RecursionError
StackFull(stk) == Len(stk) >= RecursionLimit

\* lines 170-175 of a call: the request, and what the response is
ExtractCall ==
    /\ pc = "sitemap" \/ (AtEntry /\ CurrentEntry.loc = "text")
    /\ ~StackFull(stack)
    /\ \E outcome \in FetchOutcomes :
          ExtractCallOn(CallTarget, Served(CallTarget, outcome))
    /\ UNCHANGED << domain, max_pages, site, seo_reports, report, page_log,
                    call, ret >>

\* line 183 with a full stack: the call raises RecursionError before its
\* request is made.  It is caught by the except of the call (lines 190-192),
\* which returns []; when the handler itself has no room, by the except of
\* the caller, which returns [] in its turn.
ExtractOverflow ==
    /\ AtEntry
    /\ CurrentEntry.loc = "text"
    /\ StackFull(stack)
    /\ \E caught_by \in { "callee", "caller" } :
          Deliver(IF caught_by = "callee" THEN stack ELSE Pop(stack), << >>)
    /\ UNCHANGED << domain, max_pages, site, seo_reports, report, sitemap_log,
                    page_log, call, ret >>

\* line 182: a <sitemap> without <loc> is passed over
ExtractSkip ==
    /\ AtEntry
    /\ CurrentEntry.loc = "absent"
    /\ stack' = [ stack EXCEPT ![Len(stack)].i = @ + 1 ]
    /\ UNCHANGED << pc, domain, max_pages, site, all_page_urls, seo_reports,
                    report, sitemap_log, page_log, call, ret >>

\* line 183: loc.text is None, .strip() raises, the call returns [] (line 192)
ExtractRaise ==
    /\ AtEntry
    /\ CurrentEntry.loc = "empty"
    /\ Deliver(Pop(stack), << >>)
    /\ UNCHANGED << domain, max_pages, site, seo_reports, report, sitemap_log,
                    page_log, call, ret >>

\* line 189: the loop is over
ExtractReturn ==
    /\ pc = "discover"
    /\ stack # << >>
    /\ stack[Len(stack)].i > Len(stack[Len(stack)].tags)
    /\ Deliver(Pop(stack), LimitPages(stack[Len(stack)].page_urls, max_pages))
    /\ UNCHANGED << domain, max_pages, site, seo_reports, report, sitemap_log,
                    page_log, call, ret >>

(***************************************************************************)
(* run_enhanced_seo_audit, lines 427-466: the driver.                      *)
(***************************************************************************)
DomainInputs ==
    { HOST \o << "/", "/" >>, HTTP \o HOST, HTTPS \o HOST \o << "/" >> }

\* lines 430-431
NormalizeDomain(d) ==
    IF StartsWith(d, HTTP) \/ StartsWith(d, HTTPS) THEN d ELSE HTTPS \o d

Normalize ==
    /\ pc = "normalize"
    /\ domain' = NormalizeDomain(domain)
    /\ pc' = "robots"
    /\ UNCHANGED << max_pages, site, stack, all_page_urls, seo_reports, report,
                    sitemap_log, page_log, call, ret >>

\* lines 434-442: the probe only prints
CheckRobots ==
    /\ pc = "robots"
    /\ \E robots_response \in { "200", "404", "exception" } : pc' = "sitemap"
    /\ UNCHANGED << crawl_vars, call, ret >>

\* lines 448-450
UrlsOrHomepage_keep_slash(found, d) == IF found = << >> THEN << d >> ELSE found

UrlsOrHomepage(found, d) ==
    IF found = << >> THEN << RStrip(d, { "/" }) >> ELSE found

ChooseUrls ==
    /\ pc = "fallback"
    /\ all_page_urls' = UrlsOrHomepage(all_page_urls, domain)
    /\ pc' = "audit"
    /\ UNCHANGED << domain, max_pages, site, stack, seo_reports, report,
                    sitemap_log, page_log, call, ret >>

PageOutcomes == { "exception", "http_error", "ok" }

Response(url, outcome) ==
    IF outcome = "ok" THEN [ status |-> "ok", soup |-> PageAt(url) ]
    ELSE [ status |-> outcome, soup |-> PageAt(url) ]

\* line 456: the URLs the loop visits
CrawlList == Take(all_page_urls, max_pages)

\* an iteration that requests a failing page a second time
AuditUrl_retry(url, outcome) ==
    /\ seo_reports' = Append(seo_reports, get_seo_data(url, Response(url, outcome)))
    /\ page_log' = IF outcome = "ok"
                   THEN Append(page_log, [ url |-> url, outcome |-> outcome ])
                   ELSE page_log \o << [ url |-> url, outcome |-> outcome ],
                                       [ url |-> url, outcome |-> outcome ] >>
    /\ pc' = "audit"

\* lines 456-460: one iteration
AuditUrl(url, outcome) ==
    /\ seo_reports' = Append(seo_reports, get_seo_data(url, Response(url, outcome)))
    /\ page_log' = Append(page_log, [ url |-> url, outcome |-> outcome ])
    /\ pc' = "audit"

AuditPage ==
    /\ pc = "audit"
    /\ Len(seo_reports) < Len(CrawlList)
    /\ \E outcome \in PageOutcomes :
          AuditUrl(CrawlList[Len(seo_reports) + 1], outcome)
    /\ UNCHANGED << domain, max_pages, site, stack, all_page_urls, report,
                    sitemap_log, call, ret >>

\* lines 463-466
MakeReport ==
    /\ pc = "audit"
    /\ Len(seo_reports) = Len(CrawlList)
    /\ report' = generate_comprehensive_report(seo_reports)
    /\ pc' = "done"
    /\ UNCHANGED << domain, max_pages, site, stack, all_page_urls, seo_reports,
                    sitemap_log, page_log, call, ret >>

Init ==
    /\ pc = "normalize"
    /\ domain \in DomainInputs
    /\ max_pages \in 0..MaxCap
    /\ site \in Sites
    /\ stack = << >>
    /\ all_page_urls = << >>
    /\ seo_reports = << >>
    /\ report = EmptyDict
    /\ sitemap_log = << >>
    /\ page_log = << >>
    /\ call = 0
    /\ ret = 0

Next ==
    \/ Normalize
    \/ CheckRobots
    \/ ExtractCall
    \/ ExtractOverflow
    \/ ExtractSkip
    \/ ExtractRaise
    \/ ExtractReturn
    \/ ChooseUrls
    \/ AuditPage
    \/ MakeReport

Spec == Init /\ [][Next]_vars

(***************************************************************************)
(* What the site lists, told from the site and the log of sitemap          *)
(* requests, with no page cap applied.                                     *)
(***************************************************************************)
SitemapFailed(url) ==
    \E i \in 1..Len(sitemap_log) : sitemap_log[i].url = url /\ ~sitemap_log[i].ok
RootUrl == BASE \o SITEMAP_XML
RootHttpUrl == HTTP \o HOST \o SITEMAP_XML
RootFailed == SitemapFailed(RootUrl) \/ SitemapFailed(RootHttpUrl)

\* the pages child sitemap k lists, none when its request failed
Contribution(k, count) ==
    IF SitemapFailed(ChildUrl(k)) THEN << >>
    ELSE [ j \in 1..count |-> PageUrl(k, j) ]

RECURSIVE Contributions(_, _)
Contributions(n, k) ==
    IF k > Len(n) THEN << >>
    ELSE Contribution(k, n[k]) \o Contributions(n, k + 1)

\* a document with an empty <loc> cannot be read: shapes "blank" and "broken"
Listed ==
    IF RootFailed THEN << >>
    ELSE CASE site.shape = "urlset" -> [ j \in 1..site.n[1] |-> PageUrl(0, j) ]
           [] site.shape = "repeat" -> << PageUrl(0, 1), PageUrl(0, 1), PageUrl(0, 2) >>
           [] site.shape \in { "index", "gaps" } -> Contributions(site.n, 1)
           [] site.shape = "nested" ->
                 (IF SitemapFailed(ChildUrl(1)) THEN << >>
                  ELSE Contribution(3, site.n[2]) \o Contribution(4, site.n[3]))
                 \o Contribution(2, site.n[1])
           [] OTHER -> << >>

DiscoveryReturned == pc = "fallback"

\* C3: discovery returns the first min(N, total) URLs of the document-order
\* concatenation of the child sitemaps' URL lists, never more than the page
\* cap N, and the driver never audits more than N pages.
C3_SitemapCap ==
    /\ DiscoveryReturned =>
          /\ all_page_urls = SubSeq(Listed, 1, Min(max_pages, Len(Listed)))
          /\ Len(all_page_urls) <= max_pages
    /\ \A i \in 1..Len(stack) : Len(stack[i].page_urls) <=
                                   max_pages * Len(stack[i].tags)
    /\ Len(seo_reports) <= max_pages

\* An index of two children listing 3 URLs each, page cap 4, every request
\* served: discovery returned 4 URLs, the first sitemap's first.
C3_Witness ==
    /\ DiscoveryReturned
    /\ site = [ shape |-> "index", n |-> << 3, 3 >> ]
    /\ max_pages = 4
    /\ \A i \in 1..Len(sitemap_log) : sitemap_log[i].ok
    /\ all_page_urls = << PageUrl(1, 1), PageUrl(1, 2), PageUrl(1, 3), PageUrl(2, 1) >>

(***************************************************************************)
(* Page failures.  A page fails when the request raises, the status is an  *)
(* error, or the processing of the fetched page raises.                    *)
(***************************************************************************)
PageFailed(i) ==
    \/ page_log[i].outcome # "ok"
    \/ PageAt(page_log[i].url).title.tag = "nostring"

\* C4: a page failure is local: the failing URL's record holds only URL and
\* Error, every other URL of the crawl list up to the cap has a full record,
\* in crawl order, and the crawl goes on to the end of the list.
C4_PageFailureLocal ==
    /\ Len(page_log) = Len(seo_reports)
    /\ Len(seo_reports) <= Len(CrawlList)
    /\ \A i \in 1..Len(seo_reports) :
          /\ page_log[i].url = CrawlList[i]
          /\ seo_reports[i]["URL"] = CrawlList[i]
          /\ IF PageFailed(i)
             THEN DOMAIN seo_reports[i] = { "URL", "Error" }
             ELSE DOMAIN seo_reports[i] = SuccessKeys
    /\ pc = "done" => Len(seo_reports) = Min(max_pages, Len(all_page_urls))

\* A crawl of three pages is over; the second request raised, the first and
\* the third page have full records.
C4_Witness ==
    /\ pc = "done"
    /\ Len(seo_reports) = 3
    /\ page_log[2].outcome = "exception"
    /\ DOMAIN seo_reports[2] = { "URL", "Error" }
    /\ DOMAIN seo_reports[1] = SuccessKeys
    /\ DOMAIN seo_reports[3] = SuccessKeys

(***************************************************************************)
(* The order and the number of the page requests.                          *)
(***************************************************************************)
CrawlListKnown == pc \in { "audit", "done" }

\* how often the URL is requested, and how often the crawl list names it
TimesFetched(url) == Cardinality({ i \in 1..Len(page_log) : page_log[i].url = url })
TimesListed(url) == Cardinality({ i \in 1..Len(CrawlList) : CrawlList[i] = url })

\* C12: pages are audited one after the other in crawl order, without retry:
\* the requests made so far are the crawl list's first URLs in order, one
\* record each; when the crawl is over there are min(number of URLs in the
\* crawl list, page cap) records, the i-th for the i-th URL, and every URL
\* was requested as often as it is listed, served or not.
C12_SequentialCrawl ==
    /\ ~CrawlListKnown => (page_log = << >> /\ seo_reports = << >>)
    /\ CrawlListKnown =>
          /\ Len(page_log) = Len(seo_reports)
          /\ \A i \in 1..Len(page_log) :
                /\ i <= Len(all_page_urls)
                /\ page_log[i].url = all_page_urls[i]
                /\ seo_reports[i]["URL"] = all_page_urls[i]
    /\ pc = "done" =>
          /\ Len(seo_reports) = Min(Len(all_page_urls), max_pages)
          /\ \A i \in 1..Len(all_page_urls) :
                TimesFetched(all_page_urls[i]) = TimesListed(all_page_urls[i])

\* The crawl of a sitemap naming one URL twice is over, cap 3: the URL was
\* requested twice, the first request failed and the second was served.
C12_Witness ==
    /\ pc = "done"
    /\ site.shape = "repeat"
    /\ max_pages = 3
    /\ Len(seo_reports) = 3
    /\ page_log[1].outcome = "http_error"
    /\ page_log[2].outcome = "ok"
    /\ page_log[1].url = page_log[2].url
    /\ TimesFetched(PageUrl(0, 1)) = 2

(***************************************************************************)
(* The fallback to the homepage.                                           *)
(***************************************************************************)
NothingDiscovered == SubSeq(Listed, 1, Min(max_pages, Len(Listed))) = << >>

\* the normalized domain without trailing slash, for each of DomainInputs
ExpectedHomepage == IF StartsWith(domain, HTTP) THEN HTTP \o HOST ELSE BASE

FallbackTaken == pc \in { "audit", "done" } /\ NothingDiscovered

\* C5 as stated: whenever discovery yields no URLs, the crawl list is exactly
\* the homepage, and the homepage is audited.
C5_Original ==
    /\ FallbackTaken => all_page_urls = << ExpectedHomepage >>
    /\ (pc = "done" /\ NothingDiscovered) =>
          /\ Len(seo_reports) = 1
          /\ seo_reports[1]["URL"] = ExpectedHomepage

\* C5: whenever discovery yields no URLs, the crawl list is exactly the
\* homepage (the normalized domain without trailing slash); the homepage is
\* audited when the page cap is at least 1, and nothing is audited when the
\* page cap is 0.
C5_Fallback ==
    /\ FallbackTaken => all_page_urls = << ExpectedHomepage >>
    /\ (pc = "done" /\ NothingDiscovered) =>
          IF max_pages >= 1
          THEN /\ Len(seo_reports) = 1
               /\ seo_reports[1]["URL"] = ExpectedHomepage
               /\ page_log[1].url = ExpectedHomepage
          ELSE seo_reports = << >>

\* The root sitemap's request failed, the page cap is 2, and the crawl ended
\* with the homepage audited, given without scheme and with trailing slashes.
C5_Witness ==
    /\ pc = "done"
    /\ RootFailed
    /\ max_pages = 2
    /\ domain = HTTPS \o HOST \o << "/", "/" >>
    /\ all_page_urls = << BASE >>
    /\ Len(seo_reports) = 1
    /\ seo_reports[1]["URL"] = BASE

(***************************************************************************)
(* Failing child sitemaps of a sitemap index.                              *)
(***************************************************************************)
RootIsIndex == site.shape \in { "index", "gaps" } /\ ~RootFailed

RECURSIVE Offset(_, _)
\* how many URLs the children before k contribute
Offset(n, k) ==
    IF k <= 1 THEN 0
    ELSE Offset(n, k - 1) + Len(Contribution(k - 1, n[k - 1]))

Discovering == pc \in { "sitemap", "discover" }

\* C6: the failure of a child sitemap is an empty contribution: the URLs of
\* the siblings before and after it are present, in document order, as far as
\* the page cap reaches, none of the failed child's URLs is, and discovery
\* always goes on and returns to the driver.
C6_ChildFailureIsolated ==
    /\ (DiscoveryReturned /\ RootIsIndex) =>
          \A k \in 1..Len(site.n) :
             \A j \in 1..site.n[k] :
                IF SitemapFailed(ChildUrl(k))
                THEN \A i \in 1..Len(all_page_urls) :
                        all_page_urls[i] # PageUrl(k, j)
                ELSE Offset(site.n, k) + j <= max_pages =>
                        /\ Len(all_page_urls) >= Offset(site.n, k) + j
                        /\ all_page_urls[Offset(site.n, k) + j] = PageUrl(k, j)
    /\ Discovering =>
          \/ pc = "sitemap"
          \/ AtEntry /\ CurrentEntry.loc \in { "text", "absent", "empty" }
          \/ stack # << >> /\ stack[Len(stack)].i > Len(stack[Len(stack)].tags)

\* An index of three children: the second child's request failed, the first
\* and the third child were served, and discovery returned their URLs.
C6_Witness ==
    /\ DiscoveryReturned
    /\ site = [ shape |-> "index", n |-> << 1, 3, 1 >> ]
    /\ max_pages >= 2
    /\ ~SitemapFailed(ChildUrl(1))
    /\ SitemapFailed(ChildUrl(2))
    /\ ~SitemapFailed(ChildUrl(3))
    /\ all_page_urls = << PageUrl(1, 1), PageUrl(3, 1) >>

(***************************************************************************)
(* Function harness: a function of the program applied to arguments drawn  *)
(* from a bounded set.  The driver's variables stay at rest.               *)
(***************************************************************************)
NoSite == [ shape |-> "none", n |-> << >> ]
NoReport == EmptyDict

CrawlAtRest ==
    /\ domain = << >>
    /\ max_pages = 0
    /\ site = NoSite
    /\ stack = << >>
    /\ all_page_urls = << >>
    /\ seo_reports = << >>
    /\ report = NoReport
    /\ sitemap_log = << >>
    /\ page_log = << >>

\* An analyzer output with n issues.
WithIssues(n) == [ issues |-> Rep("issue", n) ]

ScoreCalls ==
    { [ fn |-> "calculate_seo_score",
        title_meta |-> WithIssues(t), header |-> WithIssues(h),
        url |-> WithIssues(u), content |-> WithIssues(c),
        internal_links |-> l, images_without_alt |-> a ] :
      t \in 0..MaxIssues, h \in 0..MaxIssues, u \in 0..MaxIssues,
      c \in 0..MaxIssues, l \in 0..MaxLinks, a \in 0..MaxImages }

InitScore ==
    /\ pc = "call"
    /\ call \in ScoreCalls
    /\ ret = 0
    /\ CrawlAtRest

ApplyScore ==
    /\ pc = "call"
    /\ call.fn = "calculate_seo_score"
    /\ ret' = calculate_seo_score(call.title_meta, call.header, call.url,
                                  call.content, call.internal_links,
                                  call.images_without_alt)
    /\ pc' = "ret"
    /\ UNCHANGED << call, crawl_vars >>

NextScore == ApplyScore

SpecScore == InitScore /\ [][NextScore]_vars

(***************************************************************************)
(* C1: calculate_seo_score returns an integer in [0,100] for every number  *)
(* of title/meta, header, URL and content issues, every internal-link      *)
(* count and every count of images without alt text.                       *)
(***************************************************************************)
C1_ScoreInRange ==
    (pc = "ret" /\ call.fn = "calculate_seo_score") => ret \in 0..100

\* The lower clamp acts: the deductions sum to more than 100.
C1_Witness ==
    /\ pc = "ret"
    /\ call.fn = "calculate_seo_score"
    /\ ret = 0
    /\ calculate_seo_score_unclamped(call.title_meta, call.header, call.url,
                                     call.content, call.internal_links,
                                     call.images_without_alt) < 0

(***************************************************************************)
(* C2: calculate_seo_score is clamp_0_100(100 - 10T - 10H - 5U - 10C       *)
(* - min(2A, 20) + B), B = 5 when there are at least 3 internal links and  *)
(* 0 otherwise; the bonus is added before clamping, so it offsets          *)
(* deductions and never lifts the score above 100.                         *)
(***************************************************************************)
Clamp_0_100(x) == IF x < 0 THEN 0 ELSE IF x > 100 THEN 100 ELSE x

ReferenceScore(T, H, U, C, A, links) ==
    Clamp_0_100(100 - 10 * T - 10 * H - 5 * U - 10 * C
                - (IF 2 * A < 20 THEN 2 * A ELSE 20)
                + (IF links >= 3 THEN 5 ELSE 0))

C2_ScoreFormula ==
    (pc = "ret" /\ call.fn = "calculate_seo_score") =>
        /\ ret = ReferenceScore(Len(call.title_meta.issues),
                                Len(call.header.issues),
                                Len(call.url.issues),
                                Len(call.content.issues),
                                call.images_without_alt,
                                call.internal_links)
        /\ ret <= 100

\* One title issue, more than ten images without alt text (the deduction is
\* capped at 20) and the link bonus: 100 - 10 - 20 + 5.
C2_Witness ==
    /\ pc = "ret"
    /\ call.fn = "calculate_seo_score"
    /\ call.internal_links >= 3
    /\ call.images_without_alt > 10
    /\ Len(call.title_meta.issues) = 1
    /\ ret = 75

(***************************************************************************)
(* Harness for analyze_title_meta.                                         *)
(***************************************************************************)
MaxTitleLen == 62

DupPrefix == << "A", "b", " ", "a", "b", " " >>
NoDupPrefix == << "a", "b", " ", "c", "d", " " >>

TitleSamples ==
    { NA, << >> }
    \cup { Rep("x", k) : k \in 1..MaxTitleLen }
    \cup { DupPrefix \o Rep("x", k - Len(DupPrefix)) :
             k \in (Len(DupPrefix) + 1)..MaxTitleLen }
    \cup { NoDupPrefix \o Rep("x", k - Len(NoDupPrefix)) :
             k \in (Len(NoDupPrefix) + 1)..MaxTitleLen }

MetaSamples ==
    { NA, << >>, Rep("m", MetaMin - 1), Rep("m", MetaMin),
      Rep("m", MetaMax), Rep("m", MetaMax + 1) }

PAGE_URL == << "h", "t", "t", "p", "s", ":", "/", "/", "x", ".", "c", "o", "m", "/", "b", "l", "o", "g", "/", "p", "o", "s", "t" >>

TitleCalls ==
    { [ fn |-> "analyze_title_meta", title |-> t, meta_desc |-> m,
        url |-> PAGE_URL ] : t \in TitleSamples, m \in MetaSamples }

InitTitle ==
    /\ pc = "call"
    /\ call \in TitleCalls
    /\ ret = 0
    /\ CrawlAtRest

ApplyTitle ==
    /\ pc = "call"
    /\ call.fn = "analyze_title_meta"
    /\ ret' = analyze_title_meta(call.title, call.meta_desc, call.url)
    /\ pc' = "ret"
    /\ UNCHANGED << call, crawl_vars >>

NextTitle == ApplyTitle

SpecTitle == InitTitle /\ [][NextTitle]_vars

TitleReturned == pc = "ret" /\ call.fn = "analyze_title_meta"
TitleMissing(title) == title = << >> \/ title = NA

(***************************************************************************)
(* C7: for a present title of length L, "Title too short" is reported      *)
(* exactly when L < 30 and "Title too long" exactly when L > 60 (neither   *)
(* at L = 30 and at L = 60); a missing title yields "Missing title tag"    *)
(* and no length or duplicate-word issue.                                  *)
(***************************************************************************)
C7_TitleBoundaries ==
    TitleReturned =>
        LET issues == Range(ret.issues)
            L == Len(call.title)
        IN  IF TitleMissing(call.title)
            THEN /\ "Missing title tag" \in issues
                 /\ issues \cap { "Title too short", "Title too long",
                                  "Duplicate words in title" } = { }
            ELSE /\ "Missing title tag" \notin issues
                 /\ ("Title too short" \in issues) <=> (L < 30)
                 /\ ("Title too long" \in issues) <=> (L > 60)
                 /\ (L = 30 \/ L = 60) =>
                        issues \cap { "Title too short", "Title too long" } = { }

\* A title of exactly 60 characters with a repeated word: the duplicate is
\* reported, no length issue is.
C7_Witness ==
    /\ TitleReturned
    /\ Len(call.title) = 60
    /\ "Duplicate words in title" \in Range(ret.issues)
    /\ "Title too long" \notin Range(ret.issues)

(***************************************************************************)
(* Harness for get_seo_data: one page audit on a response drawn from the   *)
(* samples below.                                                          *)
(***************************************************************************)
GOOD_TITLE == << "W", "i", "d", "g", "e", "t", " ", "g", "u", "i", "d", "e", " " >> \o Rep("x", 22)
SHORT_TITLE == << "H", "o", "m", "e" >>
HEADING == << "I", "n", "t", "r", "o" >>
ALT == << "l", "o", "g", "o" >>
THE == << "t", "h", "e" >>
OF == << "o", "f" >>
CAT_STOP == << "c", "a", "t", "." >>
WIDGET == << "w", "i", "d", "g", "e", "t" >>
LINK_TEXT == << "m", "o", "r", "e" >>

\* 1500 words, 101 sentences, top keyword at exactly 3 per cent
ReadableText ==
    << [ w |-> THE, k |-> 1000 ], [ w |-> CAT_STOP, k |-> 100 ],
       [ w |-> WIDGET, k |-> 45 ], [ w |-> OF, k |-> 355 ] >>
\* the same with one more "widget": above 3 per cent
StuffedText ==
    << [ w |-> THE, k |-> 1000 ], [ w |-> CAT_STOP, k |-> 100 ],
       [ w |-> WIDGET, k |-> 46 ], [ w |-> OF, k |-> 354 ] >>
\* 1500 words and no sentence punctuation
WordyText == << [ w |-> THE, k |-> 1455 ], [ w |-> WIDGET, k |-> 45 ] >>
ShortText == << [ w |-> THE, k |-> ContentMinWords - 1 ] >>

TextSamples == { ReadableText, StuffedText, WordyText, ShortText }

TitleTagSamples ==
    { [ tag |-> "absent", string |-> << >> ],
      [ tag |-> "nostring", string |-> << >> ],
      [ tag |-> "string", string |-> << " " >> \o GOOD_TITLE \o << " " >> ],
      [ tag |-> "string", string |-> SHORT_TITLE ] }

NoTag == [ tag |-> FALSE, content |-> << >> ]

DescriptionSamples ==
    { NoTag,
      [ tag |-> TRUE, content |-> << >> ],
      [ tag |-> TRUE, content |-> Rep("d", MetaMin + 10) ] }

Anchor(href) == [ href |-> href, text |-> LINK_TEXT, title |-> << >> ]

AnchorSamples ==
    { << >>,
      << Anchor(<< "h", "t", "t", "p", "s", ":", "/", "/", "o", "t", "h", "e", "r", ".", "o", "r", "g", "/", "a" >>), Anchor(<< "#", "t", "o", "p" >>),
         Anchor(<< "m", "a", "i", "l", "t", "o", ":", "m", "e" >>) >>,
      << Anchor(<< "/", "a", "b", "o", "u", "t" >>), Anchor(<< "n", "e", "x", "t" >>),
         Anchor(<< " ", "h", "t", "t", "p", "s", ":", "/", "/", "x", ".", "c", "o", "m", "/", "c", " " >>),
         Anchor(<< "/", "/", "c", "d", "n", ".", "n", "e", "t", "/", "y" >>), Anchor(<< >>) >> }

UrlSamples ==
    { PAGE_URL,
      << "h", "t", "t", "p", "s", ":", "/", "/", "x", ".", "c", "o", "m" >>,
      << "h", "t", "t", "p", "s", ":", "/", "/", "x", ".", "c", "o", "m", "/", "m", "y", "_", "p", "o", "s", "t", "?", "i", "d", "=", "1" >>,
      << "h", "t", "t", "p", "s", ":", "/", "/", "x", ".", "c", "o", "m", "/", "a", "/", "b", "/", "c", "/", "d", "/", "e", "/" >> }

NoContainers == [ i \in 1..NumSelectors |-> [ found |-> FALSE, texts |-> << >> ] ]

SoupSamples ==
    { [ title |-> t, description |-> d, keywords |-> NoTag, robots |-> NoTag,
        h1 |-> Rep(HEADING, n1), h2 |-> Rep(HEADING, n2), h3 |-> << >>,
        images |-> im, text |-> tx, anchors |-> an,
        containers |-> NoContainers, ld_json |-> << >> ] :
      t \in TitleTagSamples, d \in DescriptionSamples,
      n1 \in 0..2, n2 \in 0..1,
      im \in { << >>, << ALT >>, << ALT, << >> >> },
      tx \in TextSamples, an \in AnchorSamples }

NoSoup == [ title |-> [ tag |-> "absent", string |-> << >> ] ]

ResponseSamples ==
    { [ status |-> "exception", soup |-> NoSoup ],
      [ status |-> "http_error", soup |-> NoSoup ] }
    \cup { [ status |-> "ok", soup |-> sp ] : sp \in SoupSamples }

PageCalls ==
    { [ fn |-> "get_seo_data", url |-> u, response |-> r ] :
      u \in UrlSamples, r \in ResponseSamples }

InitPage ==
    /\ pc = "call"
    /\ call \in PageCalls
    /\ ret = 0
    /\ CrawlAtRest

ApplyPage ==
    /\ pc = "call"
    /\ call.fn = "get_seo_data"
    /\ ret' = get_seo_data(call.url, call.response)
    /\ pc' = "ret"
    /\ UNCHANGED << call, crawl_vars >>

NextPage == ApplyPage

SpecPage == InitPage /\ [][NextPage]_vars

PageAudited == pc = "ret" /\ call.fn = "get_seo_data" /\ ~IsErrorRecord(ret)

\* 0 internal links, 0 H1, missing meta description, 1500 words in
\* sentences of at most 20 words on average
C8_Page(r) ==
    /\ r["Internal Links Count"] = 0
    /\ r["H1 Count"] = 0
    /\ TitleMissing(r["Meta Description"])
    /\ r["Word Count"] = 1500
    /\ "Consider shorter sentences for better readability"
           \notin Range(r["Recommendations"])

\* nothing else is deducted
C8_NothingElse(r) ==
    /\ r["H2 Count"] + r["H3 Count"] > 0
    /\ r["Title Meta Issues"] = << "Missing meta description" >>
    /\ r["URL Issues"] = << >>
    /\ r["Content Issues"] = << >>
    /\ r["Images Without Alt"] = 0

(***************************************************************************)
(* C8 as stated: every page with 0 internal links, 0 H1 headers, a missing *)
(* meta description and a 1500-word body of readable sentences gets        *)
(* Overall Score exactly 80.                                               *)
(***************************************************************************)
C8_Original ==
    (PageAudited /\ C8_Page(ret)) => ret["Overall Score"] = 80

(***************************************************************************)
(* C8 amended: such a page gets exactly 80 when nothing else is deducted:  *)
(* it has an H2 or H3 header, a title without issue, a URL without issue,  *)
(* no content issue and no image without alt text.                         *)
(***************************************************************************)
C8_ScoreEighty ==
    (PageAudited /\ C8_Page(ret) /\ C8_NothingElse(ret)) =>
        ret["Overall Score"] = 80

C8_Witness ==
    /\ PageAudited
    /\ C8_Page(ret)
    /\ C8_NothingElse(ret)
    /\ ret["Overall Score"] = 80

(***************************************************************************)
(* Harness for generate_comprehensive_report: a DataFrame of up to MaxRows *)
(* rows, each an error row or a page row with the columns the function     *)
(* reads.                                                                  *)
(***************************************************************************)
MaxRows == 3

SEO == << "s", "e", "o" >>

Row(score, words, meta, h1, title_meta, header, top) ==
    ("URL" :> PAGE_URL)
    @@ ("Overall Score" :> score)
    @@ ("Word Count" :> words)
    @@ ("Meta Description" :> meta)
    @@ ("H1 Count" :> h1)
    @@ ("Title Meta Issues" :> title_meta)
    @@ ("Header Issues" :> header)
    @@ ("URL Issues" :> << >>)
    @@ ("Content Issues" :> << >>)
    @@ ("Top Keywords" :> top)

\* page A: {seo: 5}
RowA == Row(100, 400, Rep("m", MetaMin), 1, << >>, << >>,
            << [ word |-> SEO, count |-> 5 ] >>)
\* page B: {seo: 3, widget: 1}
RowB == Row(70, 1500, NA, 0,
            << "Missing meta description" >>,
            << "Missing H1 tag", "No header tags found" >>,
            << [ word |-> SEO, count |-> 3 ], [ word |-> WIDGET, count |-> 1 ] >>)
\* six keywords seen once each, and one seen twice
RowC == Row(80, 300, NA, 0,
            << "Title too short", "Missing meta description" >>,
            << "Missing H1 tag" >>,
      << [ word |-> << "h", "o", "t", "e", "l" >>, count |-> 2 ],
         [ word |-> << "a", "l", "p", "h", "a" >>, count |-> 1 ],
         [ word |-> << "b", "r", "a", "v", "o" >>, count |-> 1 ],
         [ word |-> << "c", "h", "a", "r", "l", "i", "e" >>, count |-> 1 ],
         [ word |-> << "d", "e", "l", "t", "a" >>, count |-> 1 ],
         [ word |-> << "e", "c", "h", "o" >>, count |-> 1 ],
         [ word |-> << "f", "o", "x", "t", "r", "o", "t" >>, count |-> 1 ] >>)
\* seven keywords seen once each, one of them page B's
RowD == Row(90, 350, << >>, 2,
            << "Missing meta description" >>, << "Multiple H1 tags" >>,
      << [ word |-> << "g", "o", "l", "f" >>, count |-> 1 ],
         [ word |-> << "h", "o", "t", "e", "l" >>, count |-> 1 ],
         [ word |-> << "i", "n", "d", "i", "a" >>, count |-> 1 ],
         [ word |-> << "j", "u", "l", "i", "e", "t" >>, count |-> 1 ],
         [ word |-> << "k", "i", "l", "o" >>, count |-> 1 ],
         [ word |-> << "l", "i", "m", "a" >>, count |-> 1 ],
         [ word |-> << "w", "i", "d", "g", "e", "t" >>, count |-> 1 ] >>)

RowSamples ==
    { RowA, RowB, RowC, RowD,
      ErrorRecord(PAGE_URL, "request failed"),
      ErrorRecord(PAGE_URL, "") }

RECURSIVE SeqsUpTo(_, _)
SeqsUpTo(S, n) ==
    IF n = 0 THEN { << >> }
    ELSE SeqsUpTo(S, n - 1)
         \cup { Append(q, x) : q \in { p \in SeqsUpTo(S, n - 1) : Len(p) = n - 1 },
                               x \in S }

ReportCalls ==
    { [ fn |-> "generate_comprehensive_report", df |-> d ] :
      d \in SeqsUpTo(RowSamples, MaxRows) }

InitReport ==
    /\ pc = "call"
    /\ call \in ReportCalls
    /\ ret = 0
    /\ CrawlAtRest

ApplyReport ==
    /\ pc = "call"
    /\ call.fn = "generate_comprehensive_report"
    /\ ret' = generate_comprehensive_report(call.df)
    /\ pc' = "ret"
    /\ UNCHANGED << call, crawl_vars >>

NextReport == ApplyReport

SpecReport == InitReport /\ [][NextReport]_vars

ReportReturned == pc = "ret" /\ call.fn = "generate_comprehensive_report"

\* The rows of df without an Error, by index.
ValidIndex(df) == { i \in 1..Len(df) : "Error" \notin DOMAIN df[i] }

\* Every (row, position) at which a keyword is listed, in encounter order.
Listings(df) ==
    UNION { { << i, j >> : j \in 1..Len(df[i]["Top Keywords"]) } :
            i \in ValidIndex(df) }

RECURSIVE SumOver(_, _, _)
SumOver(S, df, kw) ==
    IF S = { } THEN 0
    ELSE LET p == CHOOSE q \in S : TRUE
             e == df[p[1]]["Top Keywords"][p[2]]
         IN  (IF e.word = kw THEN e.count ELSE 0) + SumOver(S \ { p }, df, kw)

\* the count of kw summed over the Top Keywords of all valid rows
SummedCount(df, kw) == SumOver(Listings(df), df, kw)

Before(p, q) == p[1] < q[1] \/ (p[1] = q[1] /\ p[2] < q[2])

\* the listing at which kw is first encountered
FirstListing(df, kw) ==
    CHOOSE p \in Listings(df) :
        /\ df[p[1]]["Top Keywords"][p[2]].word = kw
        /\ \A q \in Listings(df) :
              df[q[1]]["Top Keywords"][q[2]].word = kw => (q = p \/ Before(p, q))

Keywords(df) == { df[p[1]]["Top Keywords"][p[2]].word : p \in Listings(df) }

\* the keywords whose summed count is 1
OnceOnly(df) == { kw \in Keywords(df) : SummedCount(df, kw) = 1 }

\* how many once-only keywords are first encountered before kw
Rank(df, kw) ==
    Cardinality({ other \in OnceOnly(df) :
                    Before(FirstListing(df, other), FirstListing(df, kw)) })

(***************************************************************************)
(* C9: keyword_opportunities holds, in encounter order and capped at 10,   *)
(* exactly the keywords whose count summed over the Top Keywords of all    *)
(* valid pages is 1; a keyword whose summed count exceeds 1 is never       *)
(* listed.                                                                 *)
(***************************************************************************)
C9_Opportunities ==
    (ReportReturned /\ ValidIndex(call.df) # { }) =>
        LET opp == ret.keyword_analysis.keyword_opportunities
            once == OnceOnly(call.df)
        IN  /\ Len(opp) = Min(Cardinality(once), 10)
            /\ \A n \in 1..Len(opp) :
                  /\ opp[n] \in once
                  /\ Rank(call.df, opp[n]) = n - 1
            /\ \A kw \in Keywords(call.df) :
                  SummedCount(call.df, kw) > 1 => kw \notin Range(opp)

\* pages A {seo: 5} and B {seo: 3, widget: 1}: "widget" is reported, "seo"
\* is not
C9_Witness ==
    /\ ReportReturned
    /\ call.df = << RowA, RowB >>
    /\ ret.keyword_analysis.keyword_opportunities = << WIDGET >>

(***************************************************************************)
(* C10: the valid records are those without Error; total_pages is their    *)
(* number and errored records contribute to no count, mean, issue tally or *)
(* keyword tally; with no valid record (no records, or all errored) the    *)
(* report has an empty summary, empty common_issues and empty              *)
(* keyword_analysis.                                                       *)
(***************************************************************************)
RECURSIVE SumField(_, _, _)
SumField(S, df, col) ==
    IF S = { } THEN 0
    ELSE LET i == CHOOSE j \in S : TRUE
         IN  df[i][col] + SumField(S \ { i }, df, col)

IssueColumns ==
    { "Title Meta Issues", "Header Issues", "URL Issues", "Content Issues" }

\* how often the issue is listed by the valid rows
IssuePlaces(df) ==
    UNION { { << i, col, k >> : k \in 1..Len(df[i][col]) } :
            i \in ValidIndex(df), col \in IssueColumns }
IssueTally(df, issue) ==
    Cardinality({ t \in IssuePlaces(df) : df[t[1]][t[2]][t[3]] = issue })

C10_ValidOnly ==
    ReportReturned =>
        LET df == call.df
            valid == ValidIndex(df)
        IN  IF valid = { }
            THEN /\ DOMAIN ret.summary = { }
                 /\ ret.common_issues = << >>
                 /\ DOMAIN ret.keyword_analysis = { }
            ELSE /\ DOMAIN ret.summary # { }
                 /\ ret.summary.total_pages = Cardinality(valid)
                 /\ ret.summary.average_score =
                        [ sum |-> SumField(valid, df, "Overall Score"),
                          count |-> Cardinality(valid) ]
                 /\ ret.summary.average_word_count =
                        [ sum |-> SumField(valid, df, "Word Count"),
                          count |-> Cardinality(valid) ]
                 /\ ret.summary.pages_with_issues =
                        Cardinality({ i \in valid : df[i]["Title Meta Issues"] # << >> })
                 /\ ret.summary.pages_missing_meta_desc =
                        Cardinality({ i \in valid : df[i]["Meta Description"] = NA })
                 /\ ret.summary.pages_missing_h1 =
                        Cardinality({ i \in valid : df[i]["H1 Count"] = 0 })
                 /\ \A e \in Range(ret.common_issues) :
                        e.count = IssueTally(df, e.word)
                 /\ ret.keyword_analysis.total_unique_keywords =
                        Cardinality(Keywords(df))
                 /\ \A e \in Range(ret.keyword_analysis.top_keywords) :
                        e.count = SummedCount(df, e.word)

\* a mix: an errored row between two valid ones
C10_Witness ==
    /\ ReportReturned
    /\ Len(call.df) = 3
    /\ IsErrorRecord(call.df[2])
    /\ ~IsErrorRecord(call.df[1])
    /\ ~IsErrorRecord(call.df[3])
    /\ ret.summary.total_pages = 2

\* no valid record: every row errored
C10_WitnessAllErrored ==
    /\ ReportReturned
    /\ Len(call.df) = 2
    /\ ValidIndex(call.df) = { }
    /\ DOMAIN ret.summary = { }

(***************************************************************************)
(* Missing fields of a page that was fetched and parsed.                   *)
(***************************************************************************)
PageServed == pc = "ret" /\ call.fn = "get_seo_data" /\ call.response.status = "ok"

\* no title element, or a title element with no text
TitleIsMissing(soup) ==
    \/ soup.title.tag \in { "absent", "nostring" }
    \/ Strip(soup.title.string, Whitespace) = << >>

\* C13: for every page whose fetch and parse succeed the auditor returns a
\* record with all analysis fields, never an Error record, and a missing
\* title, a missing meta description and a missing H1 are recorded as the
\* issues "Missing title tag", "Missing meta description", "Missing H1 tag".
C13_MissingFieldsAreFindings ==
    PageServed =>
        /\ ~IsErrorRecord(ret)
        /\ DOMAIN ret = SuccessKeys
        /\ TitleIsMissing(call.response.soup) =>
              "Missing title tag" \in Range(ret["Title Meta Issues"])
        /\ ~call.response.soup.description.tag =>
              "Missing meta description" \in Range(ret["Title Meta Issues"])
        /\ call.response.soup.h1 = << >> =>
              "Missing H1 tag" \in Range(ret["Header Issues"])

\* A page was served whose title element has no text: the record returned is
\* an Error record.
C13_Witness ==
    /\ PageServed
    /\ call.response.soup.title.tag = "nostring"
    /\ DOMAIN ret = { "URL", "Error" }

(***************************************************************************)
(* Sitemap discovery on its own: the call of line 446 on every site, the   *)
(* self-referential ones included.  Every step of a call is a step the     *)
(* interpreter takes, and each request ends (timeout=30, line 170).        *)
(***************************************************************************)
InitDiscovery ==
    /\ pc = "sitemap"
    /\ domain \in { NormalizeDomain(d) : d \in DomainInputs }
    /\ max_pages \in 0..MaxCap
    /\ site \in Sites
    /\ stack = << >>
    /\ all_page_urls = << >>
    /\ seo_reports = << >>
    /\ report = EmptyDict
    /\ sitemap_log = << >>
    /\ page_log = << >>
    /\ call = 0
    /\ ret = 0

NextDiscovery ==
    \/ ExtractCall
    \/ ExtractOverflow
    \/ ExtractSkip
    \/ ExtractRaise
    \/ ExtractReturn

SpecDiscovery == InitDiscovery /\ [][NextDiscovery]_vars

IsCyclic(st) == st.shape \in { "self", "mutual" }

\* the most requests discovery makes on the site: one per document, or, on
\* a cycle, one per activation the stack holds
MostFetches(st) ==
    IF IsCyclic(st) THEN RecursionLimit ELSE 1 + ChildCount(st)

\* the most <sitemap> elements a document of the site has
MostEntries(st) ==
    LET lens == { Len(RootDoc(st).sitemap_tags) }
                \cup { Len(ChildDoc(st, k).sitemap_tags) : k \in 1..ChildCount(st) }
    IN  CHOOSE m \in lens : \A l \in lens : l <= m

RECURSIVE StepsOfCall(_, _)
\* the most steps a call made with k activations on the stack takes until
\* it has returned: the call, each entry of an index, the return
StepsOfCall(st, k) ==
    IF k >= RecursionLimit THEN 1
    ELSE 2 + MostEntries(st) * StepsOfCall(st, k + 1)

\* the entries of activation k that are still to be processed; the one in
\* progress is counted for the activations above k
EntriesLeft(k) ==
    IF k = Len(stack) THEN Len(stack[k].tags) - stack[k].i + 1
    ELSE Len(stack[k].tags) - stack[k].i

RECURSIVE StepsLeftFrom(_)
StepsLeftFrom(k) ==
    IF k > Len(stack) THEN 0
    ELSE 1 + EntriesLeft(k) * StepsOfCall(site, k) + StepsLeftFrom(k + 1)

\* a bound on the steps discovery still takes: it decreases with every step
StepsLeft ==
    IF pc = "sitemap" THEN StepsOfCall(site, 0)
    ELSE IF pc = "discover" THEN StepsLeftFrom(1)
    ELSE 0

NeverStuck ==
    Discovering =>
       \/ pc = "sitemap"
       \/ AtEntry /\ CurrentEntry.loc \in { "text", "absent", "empty" }
       \/ stack # << >> /\ stack[Len(stack)].i > Len(stack[Len(stack)].tags)

MaxScripts == 2

HOME == << "H", "o", "m", "e" >>
BLOG == << "B", "l", "o", "g" >>
POST == << "P", "o", "s", "t" >>

\* what select_one gives for selector i: nothing, a container whose links
\* have no text, or a container with two texts and a blank one between them
ContainerSamples(i) ==
    { [ found |-> FALSE, texts |-> << >> ],
      [ found |-> TRUE, texts |-> << << >> >> ],
      [ found |-> TRUE, texts |-> << HOME, << >>, << DigitSeq[i] >> >> ] }

NamedItem(name) == [ is_dict |-> TRUE, name |-> name ]
Script(parses, is_dict, type, items) ==
    [ parses |-> parses, is_dict |-> is_dict, type |-> type, items |-> items ]

HomeBlogPost == << NamedItem(HOME), NamedItem(BLOG), NamedItem(POST) >>

ScriptSamples ==
    { Script(FALSE, FALSE, "", << >>),
      Script(TRUE, FALSE, "", << >>),
      Script(TRUE, TRUE, "Article", HomeBlogPost),
      Script(TRUE, TRUE, "BreadcrumbList", HomeBlogPost),
      Script(TRUE, TRUE, "BreadcrumbList", << NamedItem(POST), NamedItem(<< >>), NamedItem(HOME) >>),
      Script(TRUE, TRUE, "BreadcrumbList",
             << NamedItem(BLOG), [ is_dict |-> FALSE, name |-> << >> ], NamedItem(HOME) >>) }

CrumbCalls ==
    { [ fn |-> "extract_breadcrumbs",
        soup |-> [ containers |-> << c1, c2, c3, c4, c5 >>, ld_json |-> j ] ] :
      c1 \in ContainerSamples(1), c2 \in ContainerSamples(2),
      c3 \in ContainerSamples(3), c4 \in ContainerSamples(4),
      c5 \in ContainerSamples(5), j \in SeqsUpTo(ScriptSamples, MaxScripts) }

InitCrumbs ==
    /\ pc = "call"
    /\ call \in CrumbCalls
    /\ ret = 0
    /\ CrawlAtRest

ApplyCrumbs ==
    /\ pc = "call"
    /\ call.fn = "extract_breadcrumbs"
    /\ ret' = extract_breadcrumbs(call.soup)
    /\ pc' = "ret"
    /\ UNCHANGED << call, crawl_vars >>

NextCrumbs == ApplyCrumbs

SpecCrumbs == InitCrumbs /\ [][NextCrumbs]_vars

CrumbsReturned == pc = "ret" /\ call.fn = "extract_breadcrumbs"

\* selector i yields a non-empty list of texts
Yields(soup, i) ==
    /\ soup.containers[i].found
    /\ \E k \in 1..Len(soup.containers[i].texts) : soup.containers[i].texts[k] # << >>

\* the texts of a container, blank ones left out, in order
TextsOf(container) ==
    LET kept == { k \in 1..Len(container.texts) : container.texts[k] # << >> }
    IN  [ n \in 1..Cardinality(kept) |->
             container.texts[CHOOSE k \in kept :
                                Cardinality({ m \in kept : m <= k }) = n] ]

IsCrumbList(script) ==
    script.parses /\ script.is_dict /\ script.type = "BreadcrumbList"

\* the places (script, item) whose name the fallback collects: named items
\* of BreadcrumbList blocks, up to the block's first item that is no object
NamePlaces(scripts) ==
    { << a, b >> \in (1..Len(scripts)) \X (1..3) :
         /\ IsCrumbList(scripts[a])
         /\ b <= Len(scripts[a].items)
         /\ \A m \in 1..b : scripts[a].items[m].is_dict
         /\ scripts[a].items[b].name # << >> }

PlaceBefore(x, y) == x[1] < y[1] \/ (x[1] = y[1] /\ x[2] <= y[2])

NamesOf(scripts) ==
    LET places == NamePlaces(scripts)
    IN  [ n \in 1..Cardinality(places) |->
             LET x == CHOOSE y \in places :
                         Cardinality({ z \in places : PlaceBefore(z, y) }) = n
             IN  scripts[x[1]].items[x[2]].name ]

\* C11: breadcrumb extraction returns the texts of the first selector, in the
\* fixed order, that yields a non-empty list; only when no selector yields a
\* text it returns the item names of the BreadcrumbList JSON blocks, in their
\* original order; when nothing is found it returns the empty sequence.
C11_Breadcrumbs ==
    CrumbsReturned =>
        LET soup == call.soup
            yielding == { i \in 1..NumSelectors : Yields(soup, i) }
        IN  /\ yielding # { } =>
                  \E i \in yielding :
                     /\ \A j \in yielding : i <= j
                     /\ ret = TextsOf(soup.containers[i])
            /\ yielding = { } => ret = NamesOf(soup.ld_json)
            /\ (yielding = { } /\ NamePlaces(soup.ld_json) = { }) => ret = << >>

\* No selector yields a text, one of them matches a container without text,
\* and the only script is a BreadcrumbList of Home, Blog, Post.
C11_Witness ==
    /\ CrumbsReturned
    /\ \A i \in 1..NumSelectors : ~Yields(call.soup, i)
    /\ \E i \in 1..NumSelectors : call.soup.containers[i].found
    /\ call.soup.ld_json = << Script(TRUE, TRUE, "BreadcrumbList", HomeBlogPost) >>
    /\ ret = << HOME, BLOG, POST >>

====
